---- MODULE Spec2Model ----
(***************************************************************************)
(* A model of model-reader: the two binary decoders (md2::Model and        *)
(* mdl::Model, from_reader) and the two flattening front-ends              *)
(* (FlatModel::from_md2 and FlatModel::from_mdl).                          *)
(*                                                                         *)
(* Every run executes one entry point, chosen with its input in Init.      *)
(* Vectors are 1-based sequences here, so the Rust index i is the TLA+     *)
(* index i + 1; all indices stored in the state (indices, set, fi) are the *)
(* 0-based Rust values.                                                    *)
(***************************************************************************)
EXTENDS Integers, Sequences, FiniteSets, TLC

VARIABLES file, rd, prog, pc, model, vertices, set, indices, texcoords, fi

vars == <<file, rd, prog, pc, model, vertices, set, indices, texcoords, fi>>

(***************************************************************************)
(* Bounds of the inputs.                                                   *)
(***************************************************************************)
MaxFrames == 2
MaxVerts == 2
MaxTex == 3
MaxFaces == 2
MaxSkin == 3
MaxSkins == 2
MaxCmds == 4
MaxGroups == 2
MaxCount == 2

(***************************************************************************)
(* f32.  A finite f32 value m * 2^e is the pair <<m, e>> with              *)
(* 2^23 <= m < 2^24, or <<0, 0>> for +0.0.  Only non-negative values       *)
(* occur.                                                                  *)
(***************************************************************************)
RECURSIVE Pow2(_)
Pow2(k) == IF k = 0 THEN 1 ELSE 2 * Pow2(k - 1)

F32Hidden == Pow2(23)

F32Zero == <<0, 0>>

\* The least k with n * 2^k >= d * 2^23, and n * 2^k.
RECURSIVE F32Shift(_, _, _)
F32Shift(n, lim, k) == IF n >= lim THEN <<n, k>> ELSE F32Shift(2 * n, lim, k + 1)

\* The f32 quotient n / d of two exactly representable operands (n >= 0,
\* d > 0, n / d < 2^24): IEEE 754 division, round to nearest, ties to even.
F32Div(n, d) ==
    IF n = 0 THEN F32Zero
    ELSE LET sh == F32Shift(n, d * F32Hidden, 0)
             q  == sh[1] \div d
             r  == sh[1] % d
             m  == IF (2 * r > d) \/ (2 * r = d /\ q % 2 = 1) THEN q + 1 ELSE q
         IN  IF m = 2 * F32Hidden THEN <<F32Hidden, 1 - sh[2]>> ELSE <<m, 0 - sh[2]>>

(***************************************************************************)
(* Decoded models handed to the flattening front-ends.  The input family:  *)
(* every model of up to MaxFrames frames of 1..MaxVerts vertices whose     *)
(* faces are one arbitrary triangle, or up to MaxFaces triangles over      *)
(* consecutive indices; one triangle with an index out of range; and the   *)
(* end-to-end scenario.                                                    *)
(***************************************************************************)
\* vec3_t arithmetic of the decompression: v * scale + translate per axis.
\* scale and translate are integer valued, so the f32 result is exact.
Decompress(v, scale, translate) ==
    [a \in 1..3 |-> v[a] * scale[a] + translate[a]]

RECURSIVE SeqsUpTo(_, _)
SeqsUpTo(S, n) ==
    IF n = 0 THEN { <<>> }
    ELSE LET shorter == SeqsUpTo(S, n - 1)
         IN  shorter \cup { Append(q, x) : q \in { r \in shorter : Len(r) = n - 1 }, x \in S }

\* <<a, a + 1, a + 2>> modulo n.
Consecutive(a, n) == <<a, (a + 1) % n, (a + 2) % n>>

\* skin_width and skin_height: the two largest widths, one of them a power of
\* two and one not.
Skins == { [skin_width |-> w, skin_height |-> w + 1] : w \in (MaxSkin - 1)..MaxSkin }

\* md2 frame f (0-based) of n vertices, each frame with its own transform.
Md2Frame(f, n) ==
    [scale     |-> <<1, 2, f + 1>>,
     translate |-> <<f, 0, 1>>,
     vertices  |-> [i \in 1..n |-> [v |-> <<i, 2 * i, i + f>>]]]

\* md2 texcoord records: raw texel coordinates (i16).
Md2TexCoords(nt) == [i \in 1..nt |-> [s |-> i, t |-> i - 1]]

\* md2 triangles: three position indices and three texcoord indices (u16).
Md2Triangles(n, nt) ==
    { [vertex |-> v, st_idx |-> st] : v \in [1..3 -> 0..(n - 1)], st \in [1..3 -> 0..(nt - 1)] }

Md2Strip(n, nt) ==
    { [vertex |-> Consecutive(a, n), st_idx |-> Consecutive(b, nt)] :
        a \in 0..(n - 1), b \in 0..(nt - 1) }

\* The decoder compares no index with num_vertices or num_texcoords.
Md2OutOfRange(n, nt) ==
    { [vertex |-> <<0, n, 0>>, st_idx |-> <<0, 0, 0>>],
      [vertex |-> <<n, n, 0>>, st_idx |-> <<0, nt - 1, 0>>],
      [vertex |-> <<2 * n, 0, 0>>, st_idx |-> <<0, 0, 0>>],
      [vertex |-> <<0, 0, 0>>, st_idx |-> <<0, nt, 0>>] }

Md2Faces(n, nt) ==
    SeqsUpTo(Md2Triangles(n, nt), 1) \cup SeqsUpTo(Md2Strip(n, nt), MaxFaces)
        \cup { <<t>> : t \in Md2OutOfRange(n, nt) }

Md2Model(skin, nt, fs, nf, n) ==
    [header    |-> skin,
     texcoords |-> Md2TexCoords(nt),
     faces     |-> fs,
     frames    |-> [f \in 1..nf |-> Md2Frame(f - 1, n)]]

\* 2 frames, 4 base vertices, 2 triangles sharing vertex 2 with the texcoord
\* indices 2 and 3, skin 64 x 64.
EndToEndModel ==
    Md2Model([skin_width |-> 64, skin_height |-> 64], 6,
             << [vertex |-> <<0, 1, 2>>, st_idx |-> <<0, 1, 2>>],
                [vertex |-> <<2, 3, 0>>, st_idx |-> <<3, 4, 0>>] >>, 2, 4)

\* mdl frame f (0-based) of n vertices; scale and translate are the header's.
MdlFrame(f, n) == [frame |-> [verts |-> [i \in 1..n |-> [v |-> <<i, 2 * i + f, i + f>>]]]]

\* mdl texcoord records, one per vertex: onseam and raw texel coordinates.
MdlTexCoords(n) ==
    { [i \in 1..n |-> [onseam |-> os[i], s |-> i - 1, t |-> n - i]] : os \in [1..n -> {0, 1}] }

\* mdl triangles: facefront (0: back) and three position indices.
MdlTriangles(n) ==
    { [facefront |-> ff, vertex |-> v] : ff \in {0, 1}, v \in [1..3 -> 0..(n - 1)] }

MdlStrip(n) ==
    { [facefront |-> ff, vertex |-> Consecutive(a, n)] : ff \in {0, 1}, a \in 0..(n - 1) }

MdlOutOfRange(n) ==
    { [facefront |-> ff, vertex |-> <<0, n, 0>>] : ff \in {0, 1} }

MdlFaces(n) ==
    SeqsUpTo(MdlTriangles(n), 1) \cup SeqsUpTo(MdlStrip(n), MaxFaces)
        \cup { <<t>> : t \in MdlOutOfRange(n) }

MdlModel(skin, tc, ts, nf, n) ==
    [header    |-> [scale |-> <<2, 1, 3>>, translate |-> <<1, 0, 2>>,
                    skin_width |-> skin.skin_width, skin_height |-> skin.skin_height,
                    num_verices |-> n],
     texcoords |-> tc,
     triangles |-> ts,
     frames    |-> [f \in 1..nf |-> MdlFrame(f - 1, n)]]

(***************************************************************************)
(* FlatModel::from_md2                                                     *)
(***************************************************************************)
\* lines 80-95: every frame decompressed with its own scale and translate.
Md2Vertices(m) ==
    [f \in 1..Len(m.frames) |->
        [i \in 1..Len(m.frames[f].vertices) |->
            Decompress(m.frames[f].vertices[i].v, m.frames[f].scale,
                       m.frames[f].translate)]]

\* Mutant of Md2Placeholders: no headroom for the copies.
Md2PlaceholdersNoHeadroom(verts) == [i \in 1..Len(verts[1]) |-> <<F32Zero, F32Zero>>]

\* line 99: vec![(0f32, 0f32); vertices[0].len() * 2]
Md2Placeholders(verts) == [i \in 1..(Len(verts[1]) * 2) |-> <<F32Zero, F32Zero>>]

\* Mutant of Md2St: the half-texel offset of from_mdl.
Md2StHalfTexel(m, tex_idx) ==
    <<F32Div(2 * m.texcoords[tex_idx + 1].s + 1, 2 * m.header.skin_width),
      F32Div(2 * m.texcoords[tex_idx + 1].t + 1, 2 * m.header.skin_height)>>

\* lines 105-109: s as f32 / w, t as f32 / h.
Md2St(m, tex_idx) ==
    <<F32Div(m.texcoords[tex_idx + 1].s, m.header.skin_width),
      F32Div(m.texcoords[tex_idx + 1].t, m.header.skin_height)>>

\* Mutant of DuplicateVertex: only the first frame grows.
DuplicateInFirstFrame(verts, vec_idx) ==
    [f \in 1..Len(verts) |->
        IF f = 1 THEN Append(verts[f], verts[f][vec_idx + 1]) ELSE verts[f]]

\* lines 137-140 (and 197-200): every frame pushes a copy of its own entry vec_idx.
DuplicateVertex(verts, vec_idx) ==
    [f \in 1..Len(verts) |-> Append(verts[f], verts[f][vec_idx + 1])]

\* Mutant of NewIdx: the length instead of the last index.
NewIdxOffByOne(verts) == Len(verts[1])

\* line 142 (and 201): vertices[0].len() - 1, after the push.
NewIdx(verts) == Len(verts[1]) - 1

\* Mutant of SetInsert: the position's sub-map is replaced, not extended.
SetInsertReplacing(st, vec_idx, tex_idx, slot) ==
    [p \in DOMAIN st \cup {vec_idx} |->
        IF p = vec_idx THEN [t \in {tex_idx} |-> slot] ELSE st[p]]

\* lines 127-129 and 145: HashMap::insert on the position's sub-map.
SetInsert(st, vec_idx, tex_idx, slot) ==
    [p \in DOMAIN st \cup {vec_idx} |->
        IF p = vec_idx
        THEN [t \in (IF p \in DOMAIN st THEN DOMAIN st[p] ELSE {}) \cup {tex_idx} |->
                 IF t = tex_idx THEN slot ELSE st[p][t]]
        ELSE st[p]]

\* the corner the loop of lines 101-102 is at: one index is pushed per corner.
CornersDone == Len(indices)
Md2Face == model.faces[(CornersDone \div 3) + 1]
Md2VecIdx == Md2Face.vertex[(CornersDone % 3) + 1]
Md2TexIdx == Md2Face.st_idx[(CornersDone % 3) + 1]

\* An index out of bounds panics: the call returns nothing.
Panic == pc' = "panic" /\ UNCHANGED <<file, rd, prog, model, vertices, set, indices, texcoords, fi>>

\* The panic of a texcoords[..] write that follows indices.push (lines 125-126,
\* 143-144, 202-203): what was pushed before it stays pushed.
PanicAfterPush(verts, slot) ==
    /\ pc' = "panic"
    /\ vertices' = verts
    /\ indices' = Append(indices, slot)
    /\ UNCHANGED <<file, rd, prog, model, set, texcoords, fi>>

\* lines 77-99: decompress the frames, allocate the placeholders.
\* vertices[0] panics when the model has no frame.
Md2Start ==
    /\ prog = "from_md2" /\ pc = "start"
    /\ IF Len(model.frames) = 0
       THEN Panic
       ELSE /\ vertices' = Md2Vertices(model)
            /\ texcoords' = Md2Placeholders(Md2Vertices(model))
            /\ set' = <<>>
            /\ indices' = <<>>
            /\ pc' = "corners"
            /\ UNCHANGED <<file, rd, prog, model, fi>>

\* Mutant of Md2Unseen: the pair is not entered in the map.
Md2UnseenUnrecorded(vec_idx, tex_idx) ==
    IF vec_idx >= Len(texcoords)
    THEN PanicAfterPush(vertices, vec_idx)
    ELSE /\ indices' = Append(indices, vec_idx)
         /\ texcoords' = [texcoords EXCEPT ![vec_idx + 1] = Md2St(model, tex_idx)]
         /\ UNCHANGED <<file, rd, prog, pc, model, vertices, set, fi>>

\* lines 123-129: the position is new.
Md2Unseen(vec_idx, tex_idx) ==
    IF vec_idx >= Len(texcoords)
    THEN PanicAfterPush(vertices, vec_idx)
    ELSE /\ indices' = Append(indices, vec_idx)
         /\ texcoords' = [texcoords EXCEPT ![vec_idx + 1] = Md2St(model, tex_idx)]
         /\ set' = SetInsert(set, vec_idx, tex_idx, vec_idx)
         /\ UNCHANGED <<file, rd, prog, pc, model, vertices, fi>>

\* Mutant of Md2Reuse: the texcoord of the pair is stored again, at the
\* position's own slot.
Md2ReuseStoresAgain(vec_idx, tex_idx) ==
    /\ indices' = Append(indices, set[vec_idx][tex_idx])
    /\ texcoords' = [texcoords EXCEPT ![vec_idx + 1] = Md2St(model, tex_idx)]
    /\ UNCHANGED <<file, rd, prog, pc, model, vertices, set, fi>>

\* lines 131-134: the pair is known.
Md2Reuse(vec_idx, tex_idx) ==
    /\ indices' = Append(indices, set[vec_idx][tex_idx])
    /\ UNCHANGED <<file, rd, prog, pc, model, vertices, set, texcoords, fi>>

\* lines 135-146: the position is known with other texcoords.
Md2Split(vec_idx, tex_idx) ==
    IF vec_idx >= Len(vertices[1])
    THEN Panic
    ELSE LET pushed == DuplicateVertex(vertices, vec_idx)
             new_idx == NewIdx(pushed)
         IN  IF new_idx >= Len(texcoords)
             THEN PanicAfterPush(pushed, new_idx)
             ELSE /\ vertices' = pushed
                  /\ indices' = Append(indices, new_idx)
                  /\ texcoords' = [texcoords EXCEPT ![new_idx + 1] = Md2St(model, tex_idx)]
                  /\ set' = SetInsert(set, vec_idx, tex_idx, new_idx)
                  /\ UNCHANGED <<file, rd, prog, pc, model, fi>>

\* lines 101-149: one corner of one face.
Md2Corner ==
    /\ prog = "from_md2" /\ pc = "corners"
    /\ CornersDone < 3 * Len(model.faces)
    /\ IF Md2TexIdx >= Len(model.texcoords)
       THEN Panic
       ELSE IF Md2VecIdx \notin DOMAIN set
            THEN Md2Unseen(Md2VecIdx, Md2TexIdx)
            ELSE IF Md2TexIdx \in DOMAIN set[Md2VecIdx]
                 THEN Md2Reuse(Md2VecIdx, Md2TexIdx)
                 ELSE Md2Split(Md2VecIdx, Md2TexIdx)

\* Mutant of Triples: the corners of each triangle in reverse order.
TriplesReversed(ix) ==
    [i \in 1..(Len(ix) \div 3) |-> <<ix[3 * i], ix[3 * i - 1], ix[3 * i - 2]>>]

\* lines 151-157 (and 213-219): the indices grouped in threes.
Triples(ix) ==
    [i \in 1..(Len(ix) \div 3) |-> <<ix[3 * i - 2], ix[3 * i - 1], ix[3 * i]>>]

\* Mutant of Truncate: the placeholders stay.
TruncateKeepsAll(tc, len) == tc

\* lines 159 and 221, Vec::truncate: shortens to len, never lengthens.
Truncate(tc, len) == IF len < Len(tc) THEN SubSeq(tc, 1, len) ELSE tc

\* lines 151-165: group, truncate, return.
Md2Finish ==
    /\ prog = "from_md2" /\ pc = "corners"
    /\ CornersDone = 3 * Len(model.faces)
    /\ fi' = Triples(indices)
    /\ texcoords' = Truncate(texcoords, Len(vertices[1]))
    /\ pc' = "done"
    /\ UNCHANGED <<file, rd, prog, model, vertices, set, indices>>

(***************************************************************************)
(* FlatModel::from_mdl                                                     *)
(***************************************************************************)
\* lines 175-185: every frame decompressed with the header's scale and translate.
MdlVertices(m) ==
    [f \in 1..Len(m.frames) |->
        [i \in 1..Len(m.frames[f].frame.verts) |->
            Decompress(m.frames[f].frame.verts[i].v, m.header.scale, m.header.translate)]]

\* line 186: vec![(0f32, 0f32); vertices[0].len() * 3]
MdlPlaceholders(verts) == [i \in 1..(Len(verts[1]) * 3) |-> <<F32Zero, F32Zero>>]

\* Mutant of MdlSeamSt: the seam offset w * 0.5 is left out.
MdlSeamStNoOffset(m, idx) ==
    <<F32Div(2 * m.texcoords[idx + 1].s + 1, 2 * m.header.skin_width),
      F32Div(2 * m.texcoords[idx + 1].t + 1, 2 * m.header.skin_height)>>

\* lines 195-196: (s + w * 0.5 + 0.5) / w and (t + 0.5) / h.  The numerator is
\* a multiple of 0.5 and exact; twice the numerator over twice the divisor is
\* the same quotient.
MdlSeamSt(m, idx) ==
    <<F32Div(2 * m.texcoords[idx + 1].s + m.header.skin_width + 1, 2 * m.header.skin_width),
      F32Div(2 * m.texcoords[idx + 1].t + 1, 2 * m.header.skin_height)>>

\* Mutant of MdlSt: the half-texel offset is left out.
MdlStNoHalfTexel(m, idx) ==
    <<F32Div(m.texcoords[idx + 1].s, m.header.skin_width),
      F32Div(m.texcoords[idx + 1].t, m.header.skin_height)>>

\* lines 205-206: (s + 0.5) / w and (t + 0.5) / h.
MdlSt(m, idx) ==
    <<F32Div(2 * m.texcoords[idx + 1].s + 1, 2 * m.header.skin_width),
      F32Div(2 * m.texcoords[idx + 1].t + 1, 2 * m.header.skin_height)>>

MdlFace == model.triangles[(CornersDone \div 3) + 1]
MdlIdx == MdlFace.vertex[(CornersDone % 3) + 1]

\* lines 168-187: decompress the frames, allocate the placeholders.
\* vertices[0] panics when the model has no frame.
MdlStart ==
    /\ prog = "from_mdl" /\ pc = "start"
    /\ IF Len(model.frames) = 0
       THEN Panic
       ELSE /\ vertices' = MdlVertices(model)
            /\ texcoords' = MdlPlaceholders(MdlVertices(model))
            /\ indices' = <<>>
            /\ pc' = "corners"
            /\ UNCHANGED <<file, rd, prog, model, set, fi>>

\* Mutant of MdlIsSeamCorner: the facing of the triangle is not looked at.
MdlIsSeamCornerAnyFacing(face, tc) == tc.onseam > 0

\* line 194: the corner needs the seam copy.
MdlIsSeamCorner(face, tc) == face.facefront = 0 /\ tc.onseam > 0

\* Mutant of MdlSplit: every frame pushes a copy of the first frame's entry.
MdlSplitFromFirstFrame(idx) ==
    LET pushed == [f \in 1..Len(vertices) |-> Append(vertices[f], vertices[1][idx + 1])]
        new_idx == NewIdx(pushed)
    IN  IF new_idx >= Len(texcoords)
        THEN PanicAfterPush(pushed, new_idx)
        ELSE /\ vertices' = pushed
             /\ indices' = Append(indices, new_idx)
             /\ texcoords' = [texcoords EXCEPT ![new_idx + 1] = MdlSeamSt(model, idx)]
             /\ UNCHANGED <<file, rd, prog, pc, model, set, fi>>

\* lines 195-203: a back-facing triangle's corner on the seam.
MdlSplit(idx) ==
    LET pushed == DuplicateVertex(vertices, idx)
        new_idx == NewIdx(pushed)
    IN  IF new_idx >= Len(texcoords)
        THEN PanicAfterPush(pushed, new_idx)
        ELSE /\ vertices' = pushed
             /\ indices' = Append(indices, new_idx)
             /\ texcoords' = [texcoords EXCEPT ![new_idx + 1] = MdlSeamSt(model, idx)]
             /\ UNCHANGED <<file, rd, prog, pc, model, set, fi>>

\* Mutant of MdlPlain: the corner pushes a vertex on every frame as well.
MdlPlainPushes(idx) ==
    /\ texcoords' = [texcoords EXCEPT ![idx + 1] = MdlSt(model, idx)]
    /\ indices' = Append(indices, idx)
    /\ vertices' = DuplicateVertex(vertices, idx)
    /\ UNCHANGED <<file, rd, prog, pc, model, set, fi>>

\* lines 205-208: any other corner.
MdlPlain(idx) ==
    /\ texcoords' = [texcoords EXCEPT ![idx + 1] = MdlSt(model, idx)]
    /\ indices' = Append(indices, idx)
    /\ UNCHANGED <<file, rd, prog, pc, model, vertices, set, fi>>

\* lines 189-211: one corner of one triangle.  model.texcoords[idx] panics
\* when idx is not below num_verices.
MdlCorner ==
    /\ prog = "from_mdl" /\ pc = "corners"
    /\ CornersDone < 3 * Len(model.triangles)
    /\ IF MdlIdx >= Len(model.texcoords)
       THEN Panic
       ELSE IF MdlIsSeamCorner(MdlFace, model.texcoords[MdlIdx + 1])
            THEN MdlSplit(MdlIdx)
            ELSE MdlPlain(MdlIdx)

\* lines 213-227: group, truncate, return.
MdlFinish ==
    /\ prog = "from_mdl" /\ pc = "corners"
    /\ CornersDone = 3 * Len(model.triangles)
    /\ fi' = Triples(indices)
    /\ texcoords' = Truncate(texcoords, Len(vertices[1]))
    /\ pc' = "done"
    /\ UNCHANGED <<file, rd, prog, model, vertices, set, indices>>

\* The decoded model each front-end is called with.
InitMd2 ==
    /\ prog = "from_md2"
    /\ \/ \E n \in 1..MaxVerts, nt \in 1..MaxTex, skin \in Skins, nf \in 0..MaxFrames :
            \E fs \in Md2Faces(n, nt) : model = Md2Model(skin, nt, fs, nf, n)
       \/ model = EndToEndModel

InitMdl ==
    /\ prog = "from_mdl"
    /\ \E n \in 1..MaxVerts, skin \in Skins, nf \in 0..MaxFrames :
            \E tc \in MdlTexCoords(n), ts \in MdlFaces(n) :
                model = MdlModel(skin, tc, ts, nf, n)

\* The flattening entry points take a decoded model, not a byte source.
NoFile == [format |-> "none"]
NotReading == [result |-> "none"]

Init ==
    /\ InitMd2 \/ InitMdl
    /\ file = NoFile
    /\ rd = NotReading
    /\ pc = "start"
    /\ vertices = <<>>
    /\ set = <<>>
    /\ indices = <<>>
    /\ texcoords = <<>>
    /\ fi = <<>>

Next == Md2Start \/ Md2Corner \/ Md2Finish \/ MdlStart \/ MdlCorner \/ MdlFinish

Spec == Init /\ [][Next]_vars

(***************************************************************************)
(* The byte source of a decoder.  A file is its header fields, the records *)
(* that follow, and avail: the number of read calls the source can serve   *)
(* before it runs out (a read call past it fails with UnexpectedEof).      *)
(* rd is the reader: left, the read calls the source can still serve;      *)
(* nread, the read calls served so far; result, how from_reader returned;  *)
(* parts, the sections decoded so far.                                     *)
(***************************************************************************)
MdlHeaderIdent == 1330660425
MdlHeaderVersion == 6
Md2HeaderIdent == 844121161
Md2HeaderVersion == 8

Idents == {MdlHeaderIdent, Md2HeaderIdent}
Versions == {MdlHeaderVersion, Md2HeaderVersion}

NoModel == [format |-> "none"]

\* A frame name: 16 bytes that are valid UTF-8 up to the first 0, or not.
NameKinds == {"utf8", "invalid"}

\* Read calls of one mdl record: a skin is group and data; a texcoord is
\* onseam, s, t; a triangle is facefront, a, b, c; a frame is type, bboxmin
\* (v, normal_index), bboxmax (v, normal_index), name and (v, normal_index)
\* per vertex.
MdlFrameHeadReads == 6
MdlFrameReads(h) == MdlFrameHeadReads + 2 * h.num_verices
MdlTotalReads(h) ==
    1 + 2 * h.num_skins + 3 * h.num_verices + 4 * h.num_faces
      + h.num_frames * MdlFrameReads(h)

MdlHeader(ident, version, ns, n, nfaces, nframes) ==
    [ident |-> ident, version |-> version, num_skins |-> ns, num_verices |-> n,
     num_faces |-> nfaces, num_frames |-> nframes]

MdlFileFrame(n, type_, name) ==
    [type_ |-> type_, name |-> name, verts |-> MdlFrame(1, n).frame.verts]

MdlFile(h, groups, kinds, avail) ==
    [format |-> "mdl", header |-> h,
     skins |-> [i \in 1..h.num_skins |-> [group |-> groups[i]]],
     texcoords |-> [i \in 1..h.num_verices |-> [onseam |-> i % 2, s |-> i - 1, t |-> i]],
     triangles |-> [i \in 1..h.num_faces |-> [facefront |-> i % 2, vertex |-> <<0, 0, 0>>]],
     frames |-> [i \in 1..h.num_frames |-> MdlFileFrame(h.num_verices, kinds[i][1], kinds[i][2])],
     avail |-> avail]

\* from_reader returns an error: no Model.
Fail(kind, served) ==
    /\ rd' = [rd EXCEPT !.result = kind, !.nread = rd.nread + served,
                        !.left = rd.left - served]
    /\ pc' = "returned"
    /\ UNCHANGED <<file, prog, model, vertices, set, indices, texcoords, fi>>

\* The source runs out: the read calls it can still serve are served, and
\* the next one fails.
FailIo == Fail("io", rd.left)

\* lines 277-292: the sections in the order from_reader reads them.
MdlSections == <<"skins", "texcoords", "triangles", "frames">>

MdlCount(h, sec) ==
    CASE sec = "skins" -> h.num_skins
      [] sec = "texcoords" -> h.num_verices
      [] sec = "triangles" -> h.num_faces
      [] sec = "frames" -> h.num_frames

RECURSIVE MdlNextSection(_, _)
\* The first section from the k-th on whose loop has an iteration left.
MdlNextSection(p, k) ==
    IF k > Len(MdlSections) THEN "returned"
    ELSE IF Len(p[MdlSections[k]]) < MdlCount(p.header, MdlSections[k]) THEN MdlSections[k]
    ELSE MdlNextSection(p, k + 1)

\* lines 284-290: Ok(Model { ... }).
MdlOk(p) ==
    [format |-> "mdl", header |-> p.header, skins |-> p.skins, texcoords |-> p.texcoords,
     triangles |-> p.triangles, frames |-> p.frames]

\* A record is decoded: the loops go on, or from_reader returns the Model.
MdlProceed(p, served) ==
    LET next == MdlNextSection(p, 1)
    IN  /\ rd' = [rd EXCEPT !.parts = p, !.nread = rd.nread + served,
                            !.left = rd.left - served,
                            !.result = IF next = "returned" THEN "ok" ELSE rd.result]
        /\ pc' = next
        /\ model' = IF next = "returned" THEN MdlOk(p) ELSE model
        /\ UNCHANGED <<file, prog, vertices, set, indices, texcoords, fi>>

\* Mutant of MdlCheckHeader: the version is tested before the ident.
MdlCheckHeaderVersionFirst(h) ==
    IF h.version # MdlHeaderVersion THEN "version"
    ELSE IF h.ident # MdlHeaderIdent THEN "ident"
    ELSE "ok"

\* mdl.rs lines 117-124.
MdlCheckHeader(h) ==
    IF h.ident # MdlHeaderIdent THEN "ident"
    ELSE IF h.version # MdlHeaderVersion THEN "version"
    ELSE "ok"

NoParts(h) ==
    [header |-> h, skins |-> <<>>, texcoords |-> <<>>, triangles |-> <<>>, frames |-> <<>>]

\* mdl.rs lines 107-125, read_header.
MdlReadHeader ==
    /\ prog = "mdl::from_reader" /\ pc = "header"
    /\ IF rd.left < 1 THEN FailIo
       ELSE IF MdlCheckHeader(file.header) # "ok" THEN Fail(MdlCheckHeader(file.header), 1)
       ELSE MdlProceed(NoParts(file.header), 1)

\* Mutant of MdlSkinSupported: a skin group is read as a single skin.
MdlSkinGroupAccepted(group) == TRUE

\* mdl.rs line 139.
MdlSkinSupported(group) == group = 0

\* mdl.rs lines 130-153, one iteration of the loop of read_skins.
MdlReadSkin ==
    /\ prog = "mdl::from_reader" /\ pc = "skins"
    /\ LET skin == file.skins[Len(rd.parts.skins) + 1]
       IN  IF rd.left < 1 THEN FailIo
           ELSE IF ~MdlSkinSupported(skin.group) THEN Fail("unsupported", 1)
           ELSE IF rd.left < 2 THEN FailIo
           ELSE MdlProceed([rd.parts EXCEPT !.skins = Append(@, skin)], 2)

\* mdl.rs lines 158-173, one iteration of the loop of read_texcoords.
MdlReadTexCoord ==
    /\ prog = "mdl::from_reader" /\ pc = "texcoords"
    /\ IF rd.left < 3 THEN FailIo
       ELSE MdlProceed([rd.parts EXCEPT
                !.texcoords = Append(@, file.texcoords[Len(rd.parts.texcoords) + 1])], 3)

\* mdl.rs lines 180-197, one iteration of the loop of read_triangles.
MdlReadTriangle ==
    /\ prog = "mdl::from_reader" /\ pc = "triangles"
    /\ IF rd.left < 4 THEN FailIo
       ELSE MdlProceed([rd.parts EXCEPT
                !.triangles = Append(@, file.triangles[Len(rd.parts.triangles) + 1])], 4)

\* Mutant of MdlFrameSupported: a frame group is read as a simple frame.
MdlFrameGroupAccepted(type_) == TRUE

\* mdl.rs line 210.
MdlFrameSupported(type_) == type_ = 0

\* lib.rs lines 64-72, to_utf8, on the 16 bytes of a name.
ToUtf8Ok(name) == name = "utf8"

\* mdl.rs lines 205-272, one iteration of the loop of read_frames.
MdlReadFrame ==
    /\ prog = "mdl::from_reader" /\ pc = "frames"
    /\ LET frame == file.frames[Len(rd.parts.frames) + 1]
           h == rd.parts.header
       IN  IF rd.left < 1 THEN FailIo
           ELSE IF ~MdlFrameSupported(frame.type_) THEN Fail("unsupported", 1)
           ELSE IF rd.left < MdlFrameHeadReads THEN FailIo
           ELSE IF ~ToUtf8Ok(frame.name) THEN Fail("utf8", MdlFrameHeadReads)
           ELSE IF rd.left < MdlFrameReads(h) THEN FailIo
           ELSE MdlProceed([rd.parts EXCEPT !.frames =
                    Append(@, [type_ |-> frame.type_, frame |-> [verts |-> frame.verts]])],
                    MdlFrameReads(h))

(***************************************************************************)
(* md2::Model::from_reader.  The source is seekable and every section is   *)
(* read from its own offset: avail gives, per section, the read calls the  *)
(* source can serve from that offset on.                                   *)
(***************************************************************************)
\* md2.rs lines 381-397: the sections in the order from_reader reads them.
Md2Sections == <<"skin_names", "texcoords", "faces", "commands", "frames">>

\* Read calls of one md2 record: a skin name is one; a texcoord is s, t; a
\* face is x, y, z, i, j, k; a frame is scale, translate (three each), name
\* and x, y, z, normal_idx per vertex.
Md2FrameHeadReads == 7
Md2FrameReads(h) == Md2FrameHeadReads + 4 * h.num_vertices

Md2SectionReads(h, sec) ==
    CASE sec = "skin_names" -> h.num_skins
      [] sec = "texcoords" -> 2 * h.num_texcoords
      [] sec = "faces" -> 6 * h.num_faces
      [] sec = "commands" -> h.num_gl_cmds
      [] sec = "frames" -> h.num_frames * Md2FrameReads(h)

Md2Header(ident, version, ns, n, ncmds, nframes) ==
    [ident |-> ident, version |-> version, num_skins |-> ns, num_vertices |-> n,
     num_texcoords |-> n, num_faces |-> n, num_gl_cmds |-> ncmds, num_frames |-> nframes]

\* A whole file, but for section cut, of which only k read calls are served.
Md2Avail(h, cut, k) ==
    [sec \in {Md2Sections[i] : i \in 1..Len(Md2Sections)} |->
        IF sec = cut THEN k ELSE Md2SectionReads(h, sec)]

Md2File(h, skin_names, cmds, names, avail) ==
    [format |-> "md2", header |-> h,
     skin_names |-> skin_names,
     texcoords |-> Md2TexCoords(h.num_texcoords),
     faces |-> [i \in 1..h.num_faces |-> [vertex |-> <<0, 0, 0>>, st_idx |-> <<0, 0, 0>>]],
     cmds |-> cmds,
     frames |-> [i \in 1..h.num_frames |->
                    [name |-> names[i], frame |-> Md2Frame(i, h.num_vertices)]],
     avail |-> avail]

\* The loop of read_commands: state is the NextCommand, packets the packets
\* of the command being read, i the iterations done; broke after the break.
NextCommandTyp == <<"Typ">>
NoCommand == [state |-> NextCommandTyp, packets |-> <<>>, i |-> 0, broke |-> FALSE]

Md2NoParts(h) ==
    [header |-> h, skin_names |-> <<>>, texcoords |-> <<>>, faces |-> <<>>,
     commands |-> <<>>, cmd |-> NoCommand, frames |-> <<>>]

\* The loop of a section has an iteration left.
Md2More(p, sec) ==
    CASE sec = "skin_names" -> Len(p.skin_names) < p.header.num_skins
      [] sec = "texcoords" -> Len(p.texcoords) < p.header.num_texcoords
      [] sec = "faces" -> Len(p.faces) < p.header.num_faces
      [] sec = "commands" -> ~p.cmd.broke /\ p.cmd.i < p.header.num_gl_cmds
      [] sec = "frames" -> Len(p.frames) < p.header.num_frames

RECURSIVE Md2NextSection(_, _)
Md2NextSection(p, k) ==
    IF k > Len(Md2Sections) THEN "returned"
    ELSE IF Md2More(p, Md2Sections[k]) THEN Md2Sections[k]
    ELSE Md2NextSection(p, k + 1)

\* md2.rs lines 389-396: Ok(Model { ... }).
Md2Ok(p) ==
    [format |-> "md2", header |-> p.header, skin_names |-> p.skin_names,
     texcoords |-> p.texcoords, faces |-> p.faces, frames |-> p.frames,
     commands |-> p.commands]

\* A record is decoded: the loops go on, a later section is sought, or
\* from_reader returns the Model.
Md2Proceed(p, served) ==
    LET next == Md2NextSection(p, 1)
    IN  /\ rd' = [rd EXCEPT !.parts = p, !.nread = rd.nread + served,
                            !.left = IF next = pc THEN rd.left - served
                                     ELSE IF next = "returned" THEN 0
                                     ELSE file.avail[next],
                            !.result = IF next = "returned" THEN "ok" ELSE rd.result]
        /\ pc' = next
        /\ model' = IF next = "returned" THEN Md2Ok(p) ELSE model
        /\ UNCHANGED <<file, prog, vertices, set, indices, texcoords, fi>>

\* Mutant of Md2CheckHeader: the version is tested before the ident.
Md2CheckHeaderVersionFirst(h) ==
    IF h.version # Md2HeaderVersion THEN "version"
    ELSE IF h.ident # Md2HeaderIdent THEN "ident"
    ELSE "ok"

\* md2.rs lines 163-169.
Md2CheckHeader(h) ==
    IF h.ident # Md2HeaderIdent THEN "ident"
    ELSE IF h.version # Md2HeaderVersion THEN "version"
    ELSE "ok"

\* md2.rs lines 153-172, read_header.
Md2ReadHeader ==
    /\ prog = "md2::from_reader" /\ pc = "header"
    /\ IF rd.left < 1 THEN FailIo
       ELSE IF Md2CheckHeader(file.header) # "ok" THEN Fail(Md2CheckHeader(file.header), 1)
       ELSE Md2Proceed(Md2NoParts(file.header), 1)

\* md2.rs lines 180-186, one iteration of the loop of read_skin_names.
Md2ReadSkinName ==
    /\ prog = "md2::from_reader" /\ pc = "skin_names"
    /\ LET name == file.skin_names[Len(rd.parts.skin_names) + 1]
       IN  IF rd.left < 1 THEN FailIo
           ELSE IF ~ToUtf8Ok(name) THEN Fail("utf8", 1)
           ELSE Md2Proceed([rd.parts EXCEPT !.skin_names = Append(@, name)], 1)

\* md2.rs lines 197-206, one iteration of the loop of read_texcoords.
Md2ReadTexCoord ==
    /\ prog = "md2::from_reader" /\ pc = "texcoords"
    /\ IF rd.left < 2 THEN FailIo
       ELSE Md2Proceed([rd.parts EXCEPT
                !.texcoords = Append(@, file.texcoords[Len(rd.parts.texcoords) + 1])], 2)

\* md2.rs lines 218-243, one iteration of the loop of read_faces.
Md2ReadFace ==
    /\ prog = "md2::from_reader" /\ pc = "faces"
    /\ IF rd.left < 6 THEN FailIo
       ELSE Md2Proceed([rd.parts EXCEPT
                !.faces = Append(@, file.faces[Len(rd.parts.faces) + 1])], 6)

\* Mutant of Abs: the count is taken as it is.
AbsOfPositive(n) == n

Abs(n) == IF n < 0 THEN 0 - n ELSE n

\* md2.rs lines 256-300: the match on state, after the token is read.
NextCommand(c, token) ==
    LET st == c.state
        step == [c EXCEPT !.i = c.i + 1]
    IN  CASE st[1] = "Typ" ->
                IF token = 0 THEN [cmd |-> [c EXCEPT !.broke = TRUE], emit |-> <<>>]
                ELSE [cmd |-> [step EXCEPT !.state =
                                  <<"S", IF token > 0 THEN "Fan" ELSE "Strip", Abs(token)>>],
                      emit |-> <<>>]
          [] st[1] = "S" ->
                [cmd |-> [step EXCEPT !.state = <<"T", st[2], st[3], token>>], emit |-> <<>>]
          [] st[1] = "T" ->
                [cmd |-> [step EXCEPT !.state = <<"I", st[2], st[3], st[4], token>>],
                 emit |-> <<>>]
          [] st[1] = "I" ->
                LET packets == Append(c.packets, [s |-> st[4], t |-> st[5], i |-> token])
                IN  IF st[3] - 1 = 0
                    THEN [cmd |-> [step EXCEPT !.state = NextCommandTyp, !.packets = <<>>],
                          emit |-> <<[typ |-> st[2], packets |-> packets]>>]
                    ELSE [cmd |-> [step EXCEPT !.state = <<"S", st[2], st[3] - 1>>,
                                               !.packets = packets],
                          emit |-> <<>>]

\* md2.rs lines 255-301, one iteration of the loop of read_commands.
Md2ReadCommand ==
    /\ prog = "md2::from_reader" /\ pc = "commands"
    /\ IF rd.left < 1 THEN FailIo
       ELSE LET r == NextCommand(rd.parts.cmd, file.cmds[rd.parts.cmd.i + 1])
            IN  Md2Proceed([rd.parts EXCEPT !.cmd = r.cmd,
                                            !.commands = @ \o r.emit], 1)

\* md2.rs lines 313-375, one iteration of the loop of read_frames.
Md2ReadFrame ==
    /\ prog = "md2::from_reader" /\ pc = "frames"
    /\ LET frame == file.frames[Len(rd.parts.frames) + 1]
           h == rd.parts.header
       IN  IF rd.left < Md2FrameHeadReads THEN FailIo
           ELSE IF ~ToUtf8Ok(frame.name) THEN Fail("utf8", Md2FrameHeadReads)
           ELSE IF rd.left < Md2FrameReads(h) THEN FailIo
           ELSE Md2Proceed([rd.parts EXCEPT !.frames = Append(@, frame.frame)],
                           Md2FrameReads(h))

Alike(f) == \A i, j \in DOMAIN f : f[i] = f[j]

\* Tokens of a command stream.
Tokens == {0 - 1, 0, 1}

\* The files of the md2 decoder: every header before a whole file; skin and
\* frame names of every kind; every command stream of few tokens, and the
\* streams of lists of counts, of which the header announces a part; every
\* section cut short at every read call.
Md2Names(n) == [1..n -> NameKinds]

\* The stream of a list of counts: each count, then s, t and index for each
\* of its vertices; each of these tokens is its place in the stream.
RECURSIVE Md2Stream(_, _, _)
Md2Stream(counts, k, acc) ==
    IF k > Len(counts) THEN acc
    ELSE Md2Stream(counts, k + 1,
            acc \o <<counts[k]>> \o
                [j \in 1..(3 * (IF counts[k] < 0 THEN 0 - counts[k] ELSE counts[k]))
                    |-> Len(acc) + 1 + j])
Md2Plain(n) == [i \in 1..n |-> "utf8"]

InitMd2Decode ==
    /\ prog = "md2::from_reader"
    /\ \/ \E ident \in Idents, version \in Versions, ns \in 0..MaxSkins, n \in 0..MaxVerts,
             nframes \in 0..MaxFrames, headers \in {0, 1} :
             \E skin_names \in Md2Names(ns), names \in Md2Names(nframes) :
                LET h == Md2Header(ident, version, ns, n, 0, nframes)
                IN  /\ Md2CheckHeader(h) # "ok" => (Alike(skin_names) /\ Alike(names))
                    /\ headers = 0 => (ns = 0 /\ nframes = 0 /\ Md2CheckHeader(h) = "ok")
                    /\ file = [Md2File(h, skin_names, <<>>, names, Md2Avail(h, "none", 0))
                                  EXCEPT !.avail = [header |-> headers] @@ @]
       \/ \E ncmds \in 0..MaxCmds :
             \E cmds \in [1..ncmds -> Tokens], k \in 0..ncmds :
                LET h == Md2Header(Md2HeaderIdent, Md2HeaderVersion, 1, 1, ncmds, 1)
                IN  file = [Md2File(h, Md2Plain(1), cmds, Md2Plain(1),
                                    Md2Avail(h, "commands", k))
                               EXCEPT !.avail = [header |-> 1] @@ @]
       \/ \E g \in 0..MaxGroups :
             \E counts \in [1..g -> (0 - MaxCount)..MaxCount] :
                LET cmds == Md2Stream(counts, 1, <<>>)
                IN  \E ncmds \in 0..Len(cmds) :
                       LET h == Md2Header(Md2HeaderIdent, Md2HeaderVersion, 1, 1, ncmds, 1)
                       IN  file = [Md2File(h, Md2Plain(1), cmds, Md2Plain(1),
                                           Md2Avail(h, "none", 0))
                                      EXCEPT !.avail = [header |-> 1] @@ @]
       \/ \E ns \in 0..MaxSkins, n \in 0..MaxVerts, nframes \in 0..MaxFrames :
             LET h == Md2Header(Md2HeaderIdent, Md2HeaderVersion, ns, n, 1, nframes)
             IN  \E i \in 1..Len(Md2Sections) :
                    \E k \in 0..Md2SectionReads(h, Md2Sections[i]) :
                       file = [Md2File(h, Md2Plain(ns), <<1>>, Md2Plain(nframes),
                                       Md2Avail(h, Md2Sections[i], k))
                                  EXCEPT !.avail = [header |-> 1] @@ @]

\* The files of the mdl decoder: every header, every sequence of skin groups
\* and of frame types and names, cut short at every read call.  Behind a
\* header that is refused, the records are alike and the file is whole or
\* ends with the header.
FrameKinds == {0, 1} \X NameKinds

InitMdlDecode ==
    /\ prog = "mdl::from_reader"
    /\ \E ident \in Idents, version \in Versions,
          ns \in 0..MaxSkins, n \in 0..MaxVerts, nframes \in 0..MaxFrames :
          \E groups \in [1..ns -> {0, 1}], kinds \in [1..nframes -> FrameKinds] :
             LET h == MdlHeader(ident, version, ns, n, n, nframes)
             IN  \E avail \in 0..MdlTotalReads(h) :
                    /\ MdlCheckHeader(h) # "ok" =>
                          (Alike(groups) /\ Alike(kinds) /\ avail \in {1, MdlTotalReads(h)})
                    /\ file = MdlFile(h, groups, kinds, avail)

\* The read calls the source serves from its start on.
FirstLeft(f) == IF f.format = "md2" THEN f.avail.header ELSE f.avail

InitDecode ==
    /\ InitMdlDecode \/ InitMd2Decode
    /\ rd = [left |-> FirstLeft(file), nread |-> 0, result |-> "running", parts |-> <<>>]
    /\ pc = "header"
    /\ model = NoModel
    /\ vertices = <<>>
    /\ set = <<>>
    /\ indices = <<>>
    /\ texcoords = <<>>
    /\ fi = <<>>

NextDecode ==
    \/ MdlReadHeader \/ MdlReadSkin \/ MdlReadTexCoord \/ MdlReadTriangle \/ MdlReadFrame
    \/ Md2ReadHeader \/ Md2ReadSkinName \/ Md2ReadTexCoord \/ Md2ReadFace
    \/ Md2ReadCommand \/ Md2ReadFrame

SpecDecode == InitDecode /\ [][NextDecode]_vars


(***************************************************************************)
(* Vocabulary of the properties.                                           *)
(***************************************************************************)
\* vertices[0] exists: the decompression of lines 80-95 / 175-185 is done.
Decompressed == Len(vertices) > 0

\* N: the vertex count of the decoded frames.
DecodedCount ==
    IF prog = "from_md2" THEN Len(model.frames[1].vertices)
    ELSE Len(model.frames[1].frame.verts)

InputFaces == IF prog = "from_md2" THEN model.faces ELSE model.triangles

\* The k-th corner of the input (k = 1, 2, ...), in file order.
CornerFace(k) == InputFaces[((k - 1) \div 3) + 1]
CornerPos(k) == CornerFace(k).vertex[((k - 1) % 3) + 1]
CornerTex(k) == CornerFace(k).st_idx[((k - 1) % 3) + 1]

\* Every position index of the input is below the decoded vertex count.
ValidPositions ==
    \A t \in 1..Len(InputFaces) : \A i \in 1..3 : InputFaces[t].vertex[i] < DecodedCount

\* A step that recorded a corner index.
Recorded == Len(indices') = Len(indices) + 1
NewSlot == indices'[Len(indices')]

(***************************************************************************)
(* C1: in every mesh returned by from_md2 or from_mdl the texcoord list is *)
(* exactly as long as every frame's position list.                         *)
(***************************************************************************)
C1_TruncationCorrect ==
    pc = "done" => \A f \in 1..Len(vertices) : Len(texcoords) = Len(vertices[f])

C1_Witness ==
    /\ pc = "done" /\ Len(vertices) = 2
    /\ Len(vertices[1]) > DecodedCount
    /\ Len(texcoords) = Len(vertices[2])

(***************************************************************************)
(* C2, as claimed: during the pass, once a split has happened, every       *)
(* frame is as long as the texcoord list.                                  *)
(***************************************************************************)
C2_FrameLengthDuringPass ==
    (pc = "corners" /\ Len(vertices[1]) > DecodedCount)
        => \A f \in 1..Len(vertices) : Len(vertices[f]) = Len(texcoords)

(***************************************************************************)
(* C2, amended: during the pass all frames have one length while the       *)
(* texcoord list keeps its preallocated length, 2N in from_md2 and 3N in   *)
(* from_mdl; frames and texcoord list are equally long in the returned     *)
(* mesh.                                                                   *)
(***************************************************************************)
C2_FrameLengthAmended ==
    /\ (Decompressed /\ pc \in {"corners", "panic"}) =>
          /\ \A f \in 1..Len(vertices) : Len(vertices[f]) = Len(vertices[1])
          /\ Len(texcoords) = (IF prog = "from_md2" THEN 2 ELSE 3) * DecodedCount
    /\ pc = "done" => \A f \in 1..Len(vertices) : Len(vertices[f]) = Len(texcoords)

C2_Witness ==
    /\ pc = "corners" /\ Len(vertices) = 2
    /\ Len(vertices[2]) > DecodedCount
    /\ Len(vertices[2]) < Len(texcoords)

(***************************************************************************)
(* C3: with all position indices below the decoded vertex count, every     *)
(* recorded corner index is below the current length of the frames, from   *)
(* the moment it is recorded, and every index of the returned triangles is *)
(* below the length of the returned texcoord list.                         *)
(***************************************************************************)
C3_IndexBound ==
    (Decompressed /\ ValidPositions) =>
        /\ \A k \in 1..Len(indices) : indices[k] < Len(vertices[1])
        /\ pc = "done" =>
              \A t \in 1..Len(fi) : \A i \in 1..3 : fi[t][i] < Len(texcoords)

C3_Witness ==
    /\ pc = "done" /\ ValidPositions
    /\ \E t \in 1..Len(fi) : \E i \in 1..3 :
          fi[t][i] >= DecodedCount /\ fi[t][i] = Len(texcoords) - 1

(***************************************************************************)
(* C4: in from_md2 a corner that carries the same (position index,         *)
(* texcoord index) pair as an earlier corner is given that corner's slot,  *)
(* and processing it leaves every frame as it is.                          *)
(***************************************************************************)
C4_Step ==
    (prog = "from_md2" /\ pc = "corners" /\ Recorded) =>
        \A i \in 1..Len(indices) :
            (CornerPos(i) = CornerPos(Len(indices) + 1)
                /\ CornerTex(i) = CornerTex(Len(indices) + 1))
            => (NewSlot = indices[i] /\ vertices' = vertices)

C4_IdempotentReuse == [][C4_Step]_vars

C4_Witness ==
    /\ prog = "from_md2" /\ pc = "done"
    /\ \E i \in 1..3 : \E j \in 4..Len(indices) :
          /\ CornerPos(i) = CornerPos(j) /\ CornerTex(i) = CornerTex(j)
          /\ indices[i] = indices[j]
          /\ Len(vertices[1]) > DecodedCount

(***************************************************************************)
(* C5: in from_md2 a corner whose position was referenced before, but      *)
(* never with this texcoord index, makes every frame grow by exactly one   *)
(* entry and is given the slot new length - 1, which no earlier corner of  *)
(* that position has; the end-to-end scenario yields frames of length 5,   *)
(* 5 texcoords and slot 4 for the second triangle's shared corner.         *)
(***************************************************************************)
C5_SplitCase ==
    /\ \E i \in 1..Len(indices) : CornerPos(i) = CornerPos(Len(indices) + 1)
    /\ \A i \in 1..Len(indices) :
          CornerPos(i) = CornerPos(Len(indices) + 1)
              => CornerTex(i) # CornerTex(Len(indices) + 1)

C5_Step ==
    (prog = "from_md2" /\ pc = "corners" /\ Recorded /\ C5_SplitCase) =>
        /\ \A f \in 1..Len(vertices) : Len(vertices'[f]) = Len(vertices[f]) + 1
        /\ NewSlot = Len(vertices'[1]) - 1
        /\ \A i \in 1..Len(indices) :
              CornerPos(i) = CornerPos(Len(indices) + 1) => indices[i] # NewSlot

C5_Scenario ==
    (model = EndToEndModel /\ pc = "done") =>
        /\ Len(vertices) = 2
        /\ \A f \in 1..2 : Len(vertices[f]) = 5
        /\ Len(texcoords) = 5
        /\ fi = << <<0, 1, 2>>, <<4, 3, 0>> >>

C5_SeamDuplication == [][C5_Step /\ C5_Scenario']_vars

C5_Witness ==
    /\ model = EndToEndModel /\ pc = "done"
    /\ fi[2][1] = 4 /\ Len(vertices[2]) = 5

(***************************************************************************)
(* f32 values compared as the real numbers they are.                       *)
(***************************************************************************)
F32MinExp(x, y) == IF x[2] < y[2] THEN x[2] ELSE y[2]

\* x as a multiple of 2^e, for e <= x[2].
F32Scaled(x, e) == x[1] * Pow2(x[2] - e)

\* x - y = 0.5, exactly.
F32HalfApart(x, y) ==
    LET e == F32MinExp(x, y)
    IN  e < 0 /\ F32Scaled(x, e) - F32Scaled(y, e) = Pow2((0 - 1) - e)

\* |x - y - 0.5| <= (ulp(x) + ulp(y)) / 2: x - y is 0.5 up to the rounding of
\* x and of y, each at most half a unit in its last place.
F32HalfApartRounded(x, y) ==
    LET e == F32MinExp(x, y)
        d == 2 * (F32Scaled(x, e) - F32Scaled(y, e)) - Pow2(0 - e)
        u == Pow2(x[2] - e) + Pow2(y[2] - e)
    IN  e < 0 /\ d <= u /\ (0 - d) <= u

\* (s + 0.5) / width, (t + 0.5) / height of a raw sample, in f32.
HalfTexelSt(tc) ==
    <<F32Div(2 * tc.s + 1, 2 * model.header.skin_width),
      F32Div(2 * tc.t + 1, 2 * model.header.skin_height)>>

\* (s + width / 2 + 0.5) / width, (t + 0.5) / height of a raw sample, in f32.
SeamAdjustedSt(tc) ==
    <<F32Div(2 * tc.s + model.header.skin_width + 1, 2 * model.header.skin_width),
      F32Div(2 * tc.t + 1, 2 * model.header.skin_height)>>

\* The texcoord the mesh holds for the k-th corner.
CornerSt(k) == texcoords[indices[k] + 1]

\* Corner i of a front-facing and corner j of a back-facing triangle use one
\* position, whose texcoord record has onseam set.
SeamPair(i, j) ==
    /\ CornerFace(i).facefront # 0 /\ CornerFace(j).facefront = 0
    /\ CornerPos(i) = CornerPos(j)
    /\ model.texcoords[CornerPos(i) + 1].onseam > 0

C6_Slots(i, j) ==
    /\ indices[i] # indices[j]
    /\ indices[i] = CornerPos(i)
    /\ CornerSt(i) = HalfTexelSt(model.texcoords[CornerPos(i) + 1])
    /\ CornerSt(j) = SeamAdjustedSt(model.texcoords[CornerPos(i) + 1])
    /\ CornerSt(i) # CornerSt(j)
    /\ CornerSt(i)[2] = CornerSt(j)[2]

(***************************************************************************)
(* C6, as claimed: in the mesh from_mdl returns, a seam position used by a *)
(* front-facing and a back-facing triangle has (s + 0.5) / width at its    *)
(* original slot and (s + width / 2 + 0.5) / width at a duplicated slot,   *)
(* the two s values differ by exactly 0.5 and the t values are equal, in   *)
(* either order of the triangles.                                          *)
(***************************************************************************)
C6_SeamExactHalf ==
    (prog = "from_mdl" /\ pc = "done") =>
        \A i, j \in 1..Len(indices) :
            SeamPair(i, j) => (C6_Slots(i, j) /\ F32HalfApart(CornerSt(j)[1], CornerSt(i)[1]))

(***************************************************************************)
(* C6, amended: as claimed, but the two stored s values, each the f32      *)
(* quotient, differ by 0.5 only up to the rounding of the two divisions    *)
(* (at most half a unit in the last place each).                           *)
(***************************************************************************)
C6_SeamRoundedHalf ==
    (prog = "from_mdl" /\ pc = "done") =>
        \A i, j \in 1..Len(indices) :
            SeamPair(i, j) =>
                (C6_Slots(i, j) /\ F32HalfApartRounded(CornerSt(j)[1], CornerSt(i)[1]))

\* The back-facing triangle comes first, the width is no power of two, and
\* the two stored s values are not exactly 0.5 apart.
C6_Witness ==
    /\ prog = "from_mdl" /\ pc = "done" /\ Len(vertices) = 2
    /\ \E i \in 4..Len(indices) : \E j \in 1..3 :
          /\ SeamPair(i, j) /\ C6_Slots(i, j)
          /\ ~F32HalfApart(CornerSt(j)[1], CornerSt(i)[1])

(***************************************************************************)
(* C7: a model with zero frames or zero triangles is refused with an       *)
(* empty-model condition: flattening neither panics nor returns a mesh.    *)
(***************************************************************************)
C7_EmptyModelRefused ==
    (Len(model.frames) = 0 \/ Len(InputFaces) = 0) => pc \notin {"panic", "done"}

(***************************************************************************)
(* Vocabulary of the claims about the decoders.                            *)
(***************************************************************************)
Decoding == prog \in {"mdl::from_reader", "md2::from_reader"}

ExpectedIdent == IF prog = "mdl::from_reader" THEN MdlHeaderIdent ELSE Md2HeaderIdent
ExpectedVersion == IF prog = "mdl::from_reader" THEN MdlHeaderVersion ELSE Md2HeaderVersion

\* The header has been read.
HeaderServed == Decoding /\ rd.nread >= 1

\* from_reader returned, having read the header and nothing else, without a
\* Model and without a decoded section.
StoppedAtHeader == pc = "returned" /\ rd.nread = 1 /\ model = NoModel /\ rd.parts = <<>>

\* The number of read calls before the group of the i-th skin, and before
\* the type of the j-th frame, of an mdl file.
SkinAt(i) == 1 + 2 * (i - 1)
FrameAt(j) ==
    1 + 2 * file.header.num_skins + 3 * file.header.num_verices
      + 4 * file.header.num_faces
      + (j - 1) * (6 + 2 * file.header.num_verices)

\* The read calls at which the file holds the group of a skin group or the
\* type of a frame group.
GroupedAt ==
    {SkinAt(i) : i \in {i \in 1..Len(file.skins) :
                          file.skins[i].group # 0 /\ SkinAt(i) < file.avail}}
    \cup
    {FrameAt(j) : j \in {j \in 1..Len(file.frames) :
                          file.frames[j].type_ # 0 /\ FrameAt(j) < file.avail}}

Least(S) == CHOOSE x \in S : \A y \in S : x <= y

\* The read calls, before the first grouped record, that serve a frame name
\* that is not UTF-8.
BadNameAt ==
    {FrameAt(j) + 5 : j \in {j \in 1..Len(file.frames) :
                          /\ file.frames[j].name = "invalid"
                          /\ FrameAt(j) + 5 < Least(GroupedAt)}}

\* An mdl file with a good header and a grouped record has been decoded.
GroupedReturned ==
    /\ prog = "mdl::from_reader" /\ pc = "returned"
    /\ file.header.ident = MdlHeaderIdent /\ file.header.version = MdlHeaderVersion
    /\ GroupedAt # {}

(***************************************************************************)
(* C8, as claimed: when a frame record of an mdl input declares a non-zero *)
(* type, or a skin record a non-zero group, from_reader returns the        *)
(* unsupported-variant error at the first such record, reads nothing       *)
(* further and returns no Model.                                           *)
(***************************************************************************)
C8_GroupedRejected ==
    GroupedReturned =>
        /\ rd.result = "unsupported"
        /\ rd.nread = Least(GroupedAt) + 1
        /\ model = NoModel

(***************************************************************************)
(* C8, amended: from_reader returns the unsupported-variant error at the   *)
(* first such record when every record before it decodes; when the name of *)
(* an earlier frame is not valid UTF-8 it returns the utf8 error at the    *)
(* first such name.  Either way it reads nothing further and returns no    *)
(* Model.                                                                  *)
(***************************************************************************)
C8_GroupedOrEarlierError ==
    GroupedReturned =>
        /\ IF BadNameAt = {}
           THEN rd.result = "unsupported" /\ rd.nread = Least(GroupedAt) + 1
           ELSE rd.result = "utf8" /\ rd.nread = Least(BadNameAt) + 1
        /\ model = NoModel

\* A frame group behind a skin and a simple frame that decode.
C8_Witness ==
    /\ GroupedReturned
    /\ rd.result = "unsupported"
    /\ Len(rd.parts.skins) >= 1 /\ Len(rd.parts.frames) >= 1
    /\ file.header.num_verices >= 1
    /\ file.avail > rd.nread

(***************************************************************************)
(* C9: in both decoders, once the header is read, a wrong ident gives the  *)
(* ident error whatever the version, a right ident with a wrong version    *)
(* gives the version error, in both cases from_reader returns with no      *)
(* other section read and no Model, and a header with both right gives     *)
(* neither error.                                                          *)
(***************************************************************************)
C9_HeaderOrder ==
    HeaderServed =>
        IF file.header.ident # ExpectedIdent
        THEN rd.result = "ident" /\ StoppedAtHeader
        ELSE IF file.header.version # ExpectedVersion
        THEN rd.result = "version" /\ StoppedAtHeader
        ELSE rd.result \notin {"ident", "version"} /\ rd.parts # <<>>

\* An md2 header with ident and version both wrong, before sections that
\* the source could serve.
C9_Witness ==
    /\ prog = "md2::from_reader" /\ pc = "returned" /\ rd.result = "ident"
    /\ file.header.version # Md2HeaderVersion
    /\ file.header.num_frames >= 1 /\ file.avail["frames"] >= 1

\* The raw sample the k-th corner refers to.
CornerSample(k) ==
    IF prog = "from_md2" THEN model.texcoords[CornerTex(k) + 1]
    ELSE model.texcoords[CornerPos(k) + 1]

SeamAdjusted(k) ==
    /\ prog = "from_mdl"
    /\ CornerFace(k).facefront = 0
    /\ model.texcoords[CornerPos(k) + 1].onseam > 0

Flattened == Decompressed /\ pc \in {"corners", "done"} /\ ValidPositions

\* The corner just recorded during the pass, and every corner of the mesh
\* returned.
StoredCorners == IF pc = "done" THEN 1..Len(indices) ELSE {Len(indices)} \ {0}

(***************************************************************************)
(* C10, as claimed: in from_md2 and in from_mdl alike, the texcoord held   *)
(* for a corner that is not seam-adjusted is ((s + 0.5) / skin_width,      *)
(* (t + 0.5) / skin_height) of its raw sample.                             *)
(***************************************************************************)
C10_HalfTexelBoth ==
    Flattened =>
        \A k \in StoredCorners :
            ~SeamAdjusted(k) => CornerSt(k) = HalfTexelSt(CornerSample(k))

PlainSt(tc) ==
    <<F32Div(tc.s, model.header.skin_width), F32Div(tc.t, model.header.skin_height)>>

(***************************************************************************)
(* C10, amended: the half-texel offset is from_mdl's alone; from_md2       *)
(* stores (s / skin_width, t / skin_height).                               *)
(***************************************************************************)
C10_HalfTexelMdlOnly ==
    Flattened =>
        \A k \in StoredCorners :
            ~SeamAdjusted(k) =>
                CornerSt(k) = (IF prog = "from_md2" THEN PlainSt(CornerSample(k))
                               ELSE HalfTexelSt(CornerSample(k)))

C10_Witness ==
    /\ prog = "from_md2" /\ pc = "done" /\ ValidPositions
    /\ Len(vertices[1]) > DecodedCount
    /\ \E k \in 1..Len(indices) :
          /\ CornerSt(k) = PlainSt(CornerSample(k))
          /\ CornerSt(k) # HalfTexelSt(CornerSample(k))

\* The slots from_md2 has stored a texcoord at: every texcoords[x] = st of
\* lines 126 and 144 goes with the insert of x into the position's sub-map.
Md2Assigned == UNION { { set[p][t] : t \in DOMAIN set[p] } : p \in DOMAIN set }

\* A step of from_md2 stores at most one texcoord, at a slot that holds none
\* yet, and changes no other entry of the list.
C11_Step ==
    (prog = "from_md2" /\ pc = "corners" /\ ValidPositions) =>
        IF set' # set
        THEN /\ Recorded
             /\ NewSlot \notin Md2Assigned
             /\ \A j \in 1..Len(texcoords) :
                   j # NewSlot + 1 => texcoords'[j] = texcoords[j]
        ELSE \A j \in 1..Len(texcoords') : texcoords'[j] = texcoords[j]

Md2Returned == prog = "from_md2" /\ pc = "done" /\ ValidPositions

C11_AllAssigned ==
    (Md2Returned /\ Len(model.faces) > 0) =>
        \A slot \in 0..(Len(texcoords) - 1) : slot \in Md2Assigned

\* A slot that some corner of the returned mesh refers to.
Referenced(slot) == \E k \in 1..Len(indices) : indices[k] = slot

C11_ReferencedAssigned ==
    Md2Returned =>
        \A slot \in 0..(Len(texcoords) - 1) :
            IF Referenced(slot) THEN slot \in Md2Assigned
            ELSE /\ slot \notin Md2Assigned
                 /\ slot < DecodedCount
                 /\ \A k \in 1..Len(indices) : CornerPos(k) # slot
                 /\ texcoords[slot + 1] = <<F32Zero, F32Zero>>

(***************************************************************************)
(* C11, as claimed: in from_md2, with all position indices below the       *)
(* decoded vertex count, no texcoord once stored is overwritten by a later *)
(* corner, and every slot of the returned texcoord list has had its        *)
(* texcoord stored.                                                        *)
(***************************************************************************)
C11_AssignedOnce == [][C11_Step /\ C11_AllAssigned']_vars

(***************************************************************************)
(* C11, amended: no texcoord once stored is overwritten, and the slots of  *)
(* the returned list that have had a texcoord stored are those the         *)
(* returned triangles refer to; the slot of a position that no triangle    *)
(* references is never stored to and keeps the (0, 0) placeholder.         *)
(***************************************************************************)
C11_ReferencedAssignedOnce == [][C11_Step /\ C11_ReferencedAssigned']_vars

\* A returned mesh with a copied position and with a position that no
\* triangle references.
C11_Witness ==
    /\ Md2Returned
    /\ Len(vertices[1]) > DecodedCount
    /\ \E slot \in 0..(DecodedCount - 1) :
          ~Referenced(slot) /\ texcoords[slot + 1] = <<F32Zero, F32Zero>>
    /\ \A slot \in 0..(Len(texcoords) - 1) : Referenced(slot) => slot \in Md2Assigned

\* Every frame is one entry longer after the step.
GrownByOne == \A f \in 1..Len(vertices) : Len(vertices'[f]) = Len(vertices[f]) + 1

C12_Step ==
    (prog = "from_mdl" /\ pc = "corners" /\ Recorded) =>
        IF SeamAdjusted(Len(indices) + 1)
        THEN GrownByOne /\ NewSlot = Len(vertices[1])
        ELSE vertices' = vertices /\ NewSlot = CornerPos(Len(indices) + 1)

C12_Final ==
    (prog = "from_mdl" /\ pc = "done") =>
        Len(vertices[1]) =
            DecodedCount + Cardinality({k \in 1..Len(indices) : SeamAdjusted(k)})

(***************************************************************************)
(* C12: from_mdl gives a corner a fresh slot, one entry appended to every  *)
(* frame, exactly when its triangle is back-facing and its texcoord record *)
(* has onseam set, every time anew; any other corner is given its position *)
(* index and leaves the frames alone; the returned frames have N entries   *)
(* plus one per back-facing on-seam corner of the input.                   *)
(***************************************************************************)
C12_AllocationPolicy == [][C12_Step /\ C12_Final']_vars

\* The same on-seam position, twice in back-facing corners and once in a
\* front-facing one: two fresh slots and the position index.
C12_Witness ==
    /\ prog = "from_mdl" /\ pc = "done"
    /\ \E i, j, k \in 1..Len(indices) :
          /\ i < j /\ SeamAdjusted(i) /\ SeamAdjusted(j) /\ ~SeamAdjusted(k)
          /\ CornerPos(i) = CornerPos(j) /\ CornerPos(k) = CornerPos(i)
          /\ indices[i] >= DecodedCount /\ indices[j] > indices[i]
          /\ indices[k] = CornerPos(k)

\* The command stream of the file, by its layout: a group is a count and
\* three tokens for each of its vertices.
Magnitude(n) == IF n < 0 THEN 0 - n ELSE n
GroupEnd(g) == g + 3 * Magnitude(file.cmds[g])

\* The count token of the group that holds token p, looked for from the
\* group at g on; 0 if a count of zero comes before p.
RECURSIVE GroupStartOf(_, _)
GroupStartOf(p, g) ==
    IF p <= GroupEnd(g) THEN g
    ELSE IF file.cmds[g] = 0 THEN 0
    ELSE GroupStartOf(p, GroupEnd(g) + 1)

\* The command of the group at g.
GroupCommand(g) ==
    [typ |-> IF file.cmds[g] > 0 THEN "Fan" ELSE "Strip",
     packets |-> [j \in 1..Magnitude(file.cmds[g]) |->
                    [s |-> file.cmds[g + 3 * j - 2], t |-> file.cmds[g + 3 * j - 1],
                     i |-> file.cmds[g + 3 * j]]]]

\* The read calls read_commands has made.
CommandTokensRead(r) ==
    r.nread - (1 + file.header.num_skins + 2 * file.header.num_texcoords
                 + 6 * file.header.num_faces)

C13_Step ==
    (prog = "md2::from_reader" /\ pc = "commands" /\ rd.left >= 1) =>
        LET p == CommandTokensRead(rd) + 1
            g == GroupStartOf(p, 1)
            old == rd.parts.commands
            new == rd'.parts.commands
        IN  /\ CommandTokensRead(rd') = p
            /\ p <= file.header.num_gl_cmds
            /\ g # 0
            /\ IF p = g
               THEN new = old /\ (file.cmds[p] = 0 => pc' # "commands")
               ELSE IF p = GroupEnd(g)
               THEN new = Append(old, GroupCommand(g))
               ELSE new = old

(***************************************************************************)
(* C13: read_commands reads one token at a time, as count, then s, t and   *)
(* index for each of |count| vertices, then the next count; the command of *)
(* a group is added exactly when its last index token is read, with the    *)
(* |count| packets in stream order and the type the sign of the count      *)
(* selects; a count of zero ends the decoding of commands; no more than    *)
(* num_gl_cmds tokens are read.                                            *)
(***************************************************************************)
C13_CommandStream == [][C13_Step]_vars

\* A Model returned with the commands of two groups of either type, the
\* first of two packets.
C13_Witness ==
    /\ prog = "md2::from_reader" /\ pc = "returned" /\ rd.result = "ok"
    /\ Len(model.commands) = 2
    /\ model.commands[1].typ # model.commands[2].typ
    /\ Len(model.commands[1].packets) = 2
    /\ model.commands[1].packets[1] # model.commands[1].packets[2]
    /\ model.commands[2] = GroupCommand(8)

\* No earlier corner of the input has the position of the corner at hand.
FirstOfPosition ==
    \A i \in 1..Len(indices) : CornerPos(i) # CornerPos(Len(indices) + 1)

C14_Step ==
    (prog = "from_md2" /\ pc = "corners" /\ pc' # "panic" /\ Recorded /\ FirstOfPosition) =>
        LET p == CornerPos(Len(indices) + 1)
            t == CornerTex(Len(indices) + 1)
        IN  /\ NewSlot = p
            /\ p \in DOMAIN set' /\ t \in DOMAIN set'[p] /\ set'[p][t] = p
            /\ texcoords'[p + 1] = PlainSt(model.texcoords[t + 1])
            /\ \A f \in 1..Len(vertices) : Len(vertices'[f]) = Len(vertices[f])

(***************************************************************************)
(* C14: in from_md2 the first corner of a position index p is given slot p *)
(* itself, the pair (p, texcoord index) is entered in the map as p, the    *)
(* normalized texcoord is stored at index p, and no frame changes length.  *)
(***************************************************************************)
C14_UnseenPosition == [][C14_Step]_vars

\* A position first met after another position was split: its slot is still
\* its own index, below the slot of the split.
C14_Witness ==
    /\ prog = "from_md2" /\ pc = "corners" /\ ValidPositions
    /\ Len(indices) > 1
    /\ \A i \in 1..(Len(indices) - 1) : CornerPos(i) # CornerPos(Len(indices))
    /\ indices[Len(indices)] = CornerPos(Len(indices))
    /\ indices[Len(indices)] > 0
    /\ Len(vertices[1]) > DecodedCount
    /\ texcoords[indices[Len(indices)] + 1] # <<F32Zero, F32Zero>>

\* All frames have one length.
Aligned == \A f, g \in 1..Len(vertices) : Len(vertices[f]) = Len(vertices[g])

\* The corner at hand is one that splits: in from_md2 a known position with
\* a texcoord index not met at it before, in from_mdl a back-facing
\* triangle's corner on the seam.
SplitCorner ==
    IF prog = "from_md2" THEN C5_SplitCase ELSE SeamAdjusted(Len(indices) + 1)

C15_Step ==
    (prog \in {"from_md2", "from_mdl"} /\ pc = "corners" /\ pc' # "panic") =>
        /\ Aligned /\ Aligned'
        /\ Len(vertices'[1]) >= Len(vertices[1])
        /\ Len(vertices'[1]) =
              Len(vertices[1]) + (IF Recorded /\ SplitCorner THEN 1 ELSE 0)

C15_Decoded ==
    (Decompressed /\ pc = "corners" /\ Len(indices) = 0) =>
        \A f \in 1..Len(vertices) : Len(vertices[f]) = DecodedCount

(***************************************************************************)
(* C15: the frames start the pass with one length N; after every corner    *)
(* from_md2 or from_mdl has processed all frames have one length L, which  *)
(* never decreases, is one more after a split and the same after any other *)
(* corner.                                                                 *)
(***************************************************************************)
C15_AlignedGrowth == [][C15_Step /\ C15_Decoded']_vars

\* Two frames, both grown by two splits, with a corner that did not split
\* after the last of them.
C15_Witness ==
    /\ pc = "corners" /\ Len(vertices) = 2
    /\ Len(vertices[1]) = DecodedCount + 2 /\ Len(vertices[2]) = DecodedCount + 2
    /\ Len(indices) > 0 /\ indices[Len(indices)] < DecodedCount

\* The decoded frames: what the decompression makes of the model's frames.
Original == IF prog = "from_md2" THEN Md2Vertices(model) ELSE MdlVertices(model)

\* A step that appended to the frames, for a corner of a position below N.
C16_Step ==
    (/\ prog \in {"from_md2", "from_mdl"} /\ pc = "corners"
     /\ Len(vertices'[1]) = Len(vertices[1]) + 1
     /\ CornerPos(Len(indices) + 1) < DecodedCount) =>
        \A f \in 1..Len(vertices) :
            vertices'[f][Len(vertices'[f])] = Original[f][CornerPos(Len(indices) + 1) + 1]

C16_Originals ==
    (Decompressed /\ prog \in {"from_md2", "from_mdl"}) =>
        \A f \in 1..Len(vertices) : \A p \in 1..DecodedCount :
            vertices[f][p] = Original[f][p]

(***************************************************************************)
(* C16: whatever was split before, a split of position index p appends to  *)
(* each frame f the value the decoded frame f has at index p, its own and  *)
(* not the first frame's; the entries at indices [0, N) of every frame are *)
(* never changed by the flattening.                                        *)
(***************************************************************************)
C16_OriginalValue == [][C16_Step /\ C16_Originals']_vars

\* Two frames after two splits, the later copy differing between the frames
\* and from the copy before it.
C16_Witness ==
    /\ pc \in {"corners", "done"} /\ Len(vertices) = 2
    /\ Len(vertices[1]) >= DecodedCount + 2
    /\ vertices[1][Len(vertices[1])] # vertices[2][Len(vertices[2])]
    /\ vertices[1][Len(vertices[1])] # vertices[1][Len(vertices[1]) - 1]

\* Every texcoord index of the input is below the number of texcoord records.
ValidTexIndices ==
    \A t \in 1..Len(model.faces) : \A i \in 1..3 :
        model.faces[t].st_idx[i] < Len(model.texcoords)

(***************************************************************************)
(* C17: for every input with at least one frame, all position indices      *)
(* below N and all texcoord indices in range, from_md2 completes: however  *)
(* many splits there are, no write texcoords[new_idx] falls outside the    *)
(* buffer of 2 * N entries, and nothing else panics.                       *)
(***************************************************************************)
C17_Md2Completes ==
    (/\ prog = "from_md2" /\ Len(model.frames) > 0
     /\ ValidPositions /\ ValidTexIndices) => pc # "panic"

(***************************************************************************)
(* C18: for every input with at least one frame and all position indices   *)
(* below N, from_mdl completes: however many back-facing on-seam corners   *)
(* there are, no write texcoords[new_idx] falls outside the buffer of      *)
(* 3 * N entries, and nothing else panics.                                 *)
(***************************************************************************)
C18_MdlCompletes ==
    (prog = "from_mdl" /\ Len(model.frames) > 0 /\ ValidPositions) => pc # "panic"

\* The input corner of the i-th index of the k-th output triangle.
CornerOf(k, i) == 3 * (k - 1) + i

\* The slot the mesh gives the c-th input corner.
SlotOf(c) == fi[((c - 1) \div 3) + 1][((c - 1) % 3) + 1]

(***************************************************************************)
(* C19: in the mesh from_md2 returns, the i-th index j of the k-th         *)
(* triangle stands for the i-th corner (p, t) of the k-th input triangle:  *)
(* every frame f holds at j the decoded position p of frame f, and the     *)
(* texcoord at j is the normalized texcoord (s / skin_width,               *)
(* t / skin_height) of sample t; there are as many triangles as in the     *)
(* input, and corners of distinct (position index, texcoord index) pairs   *)
(* never share a slot.                                                     *)
(***************************************************************************)
C19_Md2CornerFidelity ==
    Md2Returned =>
        /\ Len(fi) = Len(model.faces)
        /\ \A k \in 1..Len(fi) : \A i \in 1..3 :
              /\ \A f \in 1..Len(vertices) :
                    vertices[f][fi[k][i] + 1] = Original[f][CornerPos(CornerOf(k, i)) + 1]
              /\ texcoords[fi[k][i] + 1] =
                    PlainSt(model.texcoords[CornerTex(CornerOf(k, i)) + 1])
        /\ \A c, d \in 1..(3 * Len(fi)) :
              (CornerPos(c) # CornerPos(d) \/ CornerTex(c) # CornerTex(d))
                  => SlotOf(c) # SlotOf(d)

\* Two triangles over two frames returned with a slot of a split and a slot
\* that two corners of one pair share.
C19_Witness ==
    /\ Md2Returned /\ Len(fi) = 2 /\ Len(vertices) = 2
    /\ \E c \in 1..6 : SlotOf(c) >= DecodedCount
    /\ \E c, d \in 1..6 : c # d /\ SlotOf(c) = SlotOf(d)
    /\ \E c, d \in 1..6 : CornerPos(c) = CornerPos(d) /\ SlotOf(c) # SlotOf(d)
    /\ fi[1][1] # fi[1][3]

MdlReturned == prog = "from_mdl" /\ pc = "done" /\ ValidPositions

\* A corner that is not seam-adjusted writes a slot an earlier corner wrote.
C20_Rewrite ==
    (/\ prog = "from_mdl" /\ pc = "corners" /\ Recorded /\ ValidPositions
     /\ ~SeamAdjusted(Len(indices) + 1)
     /\ \E c \in 1..Len(indices) : indices[c] = CornerPos(Len(indices) + 1)) =>
        texcoords' = texcoords

C20_Returned ==
    MdlReturned =>
        \A c \in 1..(3 * Len(fi)) :
            /\ \A f \in 1..Len(vertices) :
                  vertices[f][SlotOf(c) + 1] = Original[f][CornerPos(c) + 1]
            /\ texcoords[SlotOf(c) + 1] =
                  IF SeamAdjusted(c) THEN SeamAdjustedSt(CornerSample(c))
                  ELSE HalfTexelSt(CornerSample(c))

(***************************************************************************)
(* C20: in the mesh from_mdl returns, the slot j of every input corner of  *)
(* position p holds in every frame f the decoded position p of frame f,    *)
(* and its texcoord is the seam-adjusted one if the corner is back-facing  *)
(* and on-seam and ((s + 0.5) / width, (t + 0.5) / height) otherwise; a    *)
(* write to an original slot that was written before stores the value it   *)
(* holds, so the texcoord returned does not depend on the triangle order.  *)
(***************************************************************************)
C20_MdlCornerFidelity == []C20_Returned /\ [][C20_Rewrite]_vars

\* Two frames returned where one on-seam position has two corners that are
\* not seam-adjusted, sharing its slot, and a seam-adjusted one.
C20_Witness ==
    /\ MdlReturned /\ Len(vertices) = 2
    /\ \E c, d, e \in 1..(3 * Len(fi)) :
          /\ c < e
          /\ CornerPos(c) = CornerPos(d) /\ CornerPos(d) = CornerPos(e)
          /\ ~SeamAdjusted(c) /\ SeamAdjusted(d) /\ ~SeamAdjusted(e)
          /\ SlotOf(c) = SlotOf(e) /\ SlotOf(d) # SlotOf(c)
          /\ texcoords[SlotOf(d) + 1] # texcoords[SlotOf(c) + 1]

====
